---- MODULE Spec2Model ----
(***************************************************************************)
(* Model of r.import.ghs (src/r.import.ghs.py): the orchestration of       *)
(* main(), the tile locators, download_onefile(), test_memory() and the    *)
(* atexit handler cleanup(), together with the part of the environment     *)
(* they act on (download directory, GRASS workspaces, registries).         *)
(*                                                                         *)
(* Paths are sequences of path components, dataset names are strings.      *)
(* Every external call (wget, ZipFile, a GRASS module) either succeeds or  *)
(* raises; grass.fatal and an uncaught exception both end main() and let   *)
(* the interpreter run the atexit handler.                                 *)
(***************************************************************************)
EXTENDS Naturals, Sequences, FiniteSets, TLC

\* ------------------------------------------------------------- bounds
\* largest number of tiles a locator returns
MaxTiles == 2
\* largest requested memory option (MB)
MaxMemory == 1
\* largest amount of free memory psutil reports (MB)
MaxFree == 2
\* largest number of removals that fail during one cleanup pass
MaxFail == 1

\* ---------------------------------------------------------- constants
Pid == "42"
NonePath == <<>>
NoneStr == ""
OrigGisrc == <<"gisrc_orig">>
TgtLoc == "tgtloc"
GisdbasePath == <<"gisdbase">>
UserDir == <<"userdir">>
TempDir == <<"grass_tempdir">>
TempFile == <<"grass_tempfile">>

VARIABLES
    options,            \* the parsed options of the command line
    pc,                 \* position of the process
    status,             \* "running", "success", "failure" (fatal error or
                        \* exception), "interrupted", "killed"
    rm_files, rm_folders, rm_rasters, rm_vectors,
    TMPLOC, SRCGISRC, TGTGISRC, GISDBASE,
    GISRC,              \* os.environ["GISRC"]
    download_dir,
    downloaded_files,   \* sequence of <<path, output name>>
    s2_urls, s2_tiles, ghs_built_tiles, ghs_tiles,
    idx,                \* loop index of the running for loop
    call,               \* arguments of the running download_onefile call
    localpath,          \* value returned by the last download_onefile call
    region_vect,        \* local of get_tiles_ghs_s2 / get_tiles_ghs_built
    memory, free_ram,   \* locals of test_memory (0 before it ran)
    patch_s2, patch_built, maps_to_patch_s2, maps_to_patch_built,
    files, dirs,        \* the file system: existing files and directories
    rasters, vectors,   \* GRASS datasets, as <<location, name>>
    log,                \* the external calls made so far, in order
    attempted,          \* items cleanup has looked up or tried to remove
    failed,             \* items whose removal cleanup tried, and failed
    warnings            \* items cleanup has issued a warning for

vars == <<options, pc, status, rm_files, rm_folders, rm_rasters, rm_vectors,
          TMPLOC, SRCGISRC, TGTGISRC, GISDBASE, GISRC, download_dir,
          downloaded_files, s2_urls, s2_tiles, ghs_built_tiles, ghs_tiles,
          idx, call, localpath, region_vect, memory, free_ram, patch_s2,
          patch_built, maps_to_patch_s2, maps_to_patch_built, files, dirs,
          rasters, vectors, log, attempted, failed, warnings>>

registries == <<rm_files, rm_folders, rm_rasters, rm_vectors>>
workspace == <<TMPLOC, SRCGISRC, TGTGISRC, GISDBASE, GISRC>>
locals == <<downloaded_files, s2_urls, s2_tiles, ghs_built_tiles, ghs_tiles,
            idx, call, localpath, region_vect>>
importstate == <<memory, free_ram, patch_s2, patch_built, maps_to_patch_s2,
                 maps_to_patch_built>>
filesystem == <<files, dirs>>
datasets == <<rasters, vectors>>
cleanupstate == <<attempted, failed, warnings>>

\* ------------------------------------------------------------ helpers
\* os.path.join(dir, name)
Join(dir, name) == Append(dir, name)

\* path p lies inside directory d
Inside(p, d) == Len(p) > Len(d) /\ SubSeq(p, 1, Len(d)) = d

\* x in list
In(x, list) == \E i \in 1..Len(list) : list[i] = x

Range(list) == {list[i] : i \in 1..Len(list)}

\* one entry of the log of external calls
Event(op, arg, out, mem, inputs, ok) ==
    [op |-> op, arg |-> arg, out |-> out, memory |-> mem,
     inputs |-> inputs, gisrc |-> GISRC, ok |-> ok]

\* location the active GISRC points to
CurrentLocation == IF GISRC = OrigGisrc THEN TgtLoc ELSE TMPLOC

\* the option values the parser can hand to main(): at least one output
\* (rule "required: ghs_built,ghs_built_s1,ghs_built_s2")
Options ==
    {o \in [ghs_built : {NoneStr, "ghs_built_map"},
            ghs_built_s1 : {NoneStr, "ghs_built_s1_map"},
            ghs_built_s2 : {NoneStr, "ghs_built_s2_map"},
            directory : {NonePath, UserDir},
            memory : 1..MaxMemory] :
        o.ghs_built # NoneStr \/ o.ghs_built_s1 # NoneStr
            \/ o.ghs_built_s2 # NoneStr}

\* first section of main() that runs at or after section s
Section(s) ==
    IF s = "s1" /\ options.ghs_built_s1 # NoneStr THEN "s1"
    ELSE IF s \in {"s1", "s2"} /\ options.ghs_built_s2 # NoneStr THEN "s2"
    ELSE IF s \in {"s1", "s2", "built"} /\ options.ghs_built # NoneStr
        THEN "built"
    ELSE "test_memory"

Init ==
    /\ options \in Options
    /\ pc = "directory"
    /\ status = "running"
    /\ rm_files = <<>> /\ rm_folders = <<>>
    /\ rm_rasters = <<>> /\ rm_vectors = <<>>
    /\ TMPLOC = NoneStr /\ SRCGISRC = NonePath
    /\ TGTGISRC = NonePath /\ GISDBASE = NonePath
    /\ GISRC = OrigGisrc
    /\ download_dir = NonePath
    /\ downloaded_files = <<>>
    /\ s2_urls = <<>> /\ s2_tiles = <<>>
    /\ ghs_built_tiles = <<>> /\ ghs_tiles = <<>>
    /\ idx = 0
    /\ call = [base |-> NoneStr, format |-> NoneStr, ret |-> NoneStr]
    /\ localpath = NonePath
    /\ region_vect = NoneStr
    /\ memory = 0 /\ free_ram = 0
    /\ patch_s2 = FALSE /\ patch_built = FALSE
    /\ maps_to_patch_s2 = <<>> /\ maps_to_patch_built = <<>>
    /\ files = {}
    /\ dirs \in IF options.directory = NonePath THEN {{}} ELSE {{}, {UserDir}}
    /\ rasters = {} /\ vectors = {}
    /\ log = <<>>
    /\ attempted = {} /\ failed = {} /\ warnings = {}

\* grass.fatal() or an uncaught exception: the interpreter exits with a
\* non-zero status and runs the atexit handler
Abort ==
    /\ pc' = "atexit"
    /\ status' = "failure"

\* ----------------------------------------------------------- main()
\* lines 303-306: the directory option is set
main_directory ==
    /\ pc = "directory"
    /\ options.directory # NonePath
    /\ download_dir' = options.directory
    /\ dirs' = dirs \cup {options.directory}
    /\ pc' = "find_program"
    /\ UNCHANGED <<options, status, registries, workspace, downloaded_files,
                   s2_urls, s2_tiles, ghs_built_tiles, ghs_tiles, idx, call,
                   localpath, region_vect, importstate, files, datasets, log,
                   cleanupstate>>

\* line 308: grass.tempdir() creates the ephemeral download directory
main_tempdir ==
    /\ pc = "directory"
    /\ options.directory = NonePath
    /\ download_dir' = TempDir
    /\ dirs' = dirs \cup {TempDir}
    /\ pc' = "register_tempdir"
    /\ UNCHANGED <<options, status, registries, workspace, downloaded_files,
                   s2_urls, s2_tiles, ghs_built_tiles, ghs_tiles, idx, call,
                   localpath, region_vect, importstate, files, datasets, log,
                   cleanupstate>>

\* line 309: rm_folders.append(download_dir)
RegisterFolder(list, path) == Append(list, path)

main_register_tempdir ==
    /\ pc = "register_tempdir"
    /\ rm_folders' = RegisterFolder(rm_folders, download_dir)
    /\ pc' = "find_program"
    /\ UNCHANGED <<options, status, rm_files, rm_rasters, rm_vectors,
                   workspace, download_dir, locals, importstate, filesystem,
                   datasets, log, cleanupstate>>

\* lines 311-319: v.in.geojson is needed for ghs_built
main_find_program ==
    /\ pc = "find_program"
    /\ IF options.ghs_built = NoneStr
         THEN pc' = Section("s1") /\ UNCHANGED <<status, log>>
         ELSE \E found \in BOOLEAN :
                /\ log' = Append(log, Event("find_program", NonePath,
                                            "v.in.geojson", 0, <<>>, found))
                /\ IF found
                     THEN pc' = Section("s1") /\ status' = status
                     ELSE Abort
    /\ UNCHANGED <<options, registries, workspace, download_dir, locals,
                   importstate, filesystem, datasets, cleanupstate>>

\* ------------------------------------------------- download_onefile()
\* line 290: rm_files.append(local_path_zip)
RegisterFile(list, path) == Append(list, path)

\* variant: the unzip folder is not appended to rm_folders
RegisterUnzipped_missing(list, path) == list

\* line 293: rm_folders.append(local_path_unzipped)
RegisterUnzipped(list, path) == Append(list, path)

\* lines 285-291: the archive is registered, then fetched by download_wget,
\* which ends the run with grass.fatal when wget raises (lines 275-280)
download_onefile_zip ==
    /\ pc = "download_zip"
    /\ LET local_path_zip == Join(download_dir, call.base \o ".zip") IN
        /\ rm_files' = RegisterFile(rm_files, local_path_zip)
        /\ \E ok \in BOOLEAN :
            /\ log' = Append(log, Event("download", local_path_zip,
                                        call.base, 0, <<>>, ok))
            /\ IF ok
                 THEN /\ files' = files \cup {local_path_zip}
                      /\ pc' = "download_unzip"
                      /\ status' = status
                 ELSE /\ files' = files
                      /\ Abort
    /\ UNCHANGED <<options, rm_folders, rm_rasters, rm_vectors, workspace,
                   download_dir, locals, importstate, dirs, datasets,
                   cleanupstate>>

\* lines 292-296: the unzip folder is registered, then the archive is
\* extracted into it; the payload path is built by convention
download_onefile_unzip ==
    /\ pc = "download_unzip"
    /\ LET local_path_unzipped ==
               Join(download_dir, call.base \o "_unzipped") IN
        /\ rm_folders' = RegisterUnzipped(rm_folders, local_path_unzipped)
        /\ \E ok \in BOOLEAN :
            /\ log' = Append(log, Event("unzip", local_path_unzipped,
                                        call.base, 0, <<>>, ok))
            /\ IF ok
                 THEN /\ dirs' = dirs \cup {local_path_unzipped}
                      /\ localpath' = Join(local_path_unzipped,
                                           call.base \o "." \o call.format)
                      /\ pc' = call.ret
                      /\ status' = status
                 ELSE /\ dirs' = dirs
                      /\ localpath' = localpath
                      /\ Abort
    /\ UNCHANGED <<options, rm_files, rm_rasters, rm_vectors, workspace,
                   download_dir, downloaded_files, s2_urls, s2_tiles,
                   ghs_built_tiles, ghs_tiles, idx, call, region_vect,
                   importstate, files, datasets, cleanupstate>>

\* ---------------------------------------------- main(): GHS-BUILT-S1
\* lines 322-337: one archive, fetched by download_onefile
main_s1_download ==
    /\ pc = "s1"
    /\ call' = [base |-> "GHS_BUILT_S1NODSM_GLOBE_R2018A", format |-> "tif",
                ret |-> "s1_append"]
    /\ pc' = "download_zip"
    /\ UNCHANGED <<options, status, registries, workspace, download_dir,
                   downloaded_files, s2_urls, s2_tiles, ghs_built_tiles,
                   ghs_tiles, idx, localpath, region_vect, importstate,
                   filesystem, datasets, log, cleanupstate>>

\* lines 338-347: the payload of this archive is a .vrt deeper in the folder
main_s1_append ==
    /\ pc = "s1_append"
    /\ LET unzipped_dir_ghs_s1 == SubSeq(localpath, 1, Len(localpath) - 1)
           ghs_built_s1_path ==
               Join(unzipped_dir_ghs_s1, "GHS_BUILT_S1NODSM_GLOBE_R2018A.vrt")
       IN downloaded_files' =
              Append(downloaded_files,
                     <<ghs_built_s1_path, options.ghs_built_s1>>)
    /\ pc' = Section("s2")
    /\ UNCHANGED <<options, status, registries, workspace, download_dir,
                   s2_urls, s2_tiles, ghs_built_tiles, ghs_tiles, idx, call,
                   localpath, region_vect, importstate, filesystem, datasets,
                   log, cleanupstate>>

\* ------------------------------------------------------ the locators
\* lines 200, 207, 235: rm_vectors.append(name)
RegisterVector(list, name) == Append(list, name)

\* what v.db.select prints for a selection of n tiles: a header line and
\* one line per tile, the url (or tile name) in the last column
DbSelect(prefix, n) ==
    <<<<"cat", "url">>>> \o [i \in 1..n |-> <<ToString(i), prefix \o ToString(i)>>]

\* line 221: urls = [item.split("|")[-1] for item in resulting_tiles[1:]]
Urls(resulting_tiles) ==
    [i \in 1..(Len(resulting_tiles) - 1) |->
        resulting_tiles[i + 1][Len(resulting_tiles[i + 1])]]

\* lines 350-352, 227-233: get_tiles_ghs_s2 fetches the tile grid archive
get_tiles_ghs_s2_download ==
    /\ pc = "s2"
    /\ call' = [base |-> "GHS_BUILT_S2comp2018_tile_schema", format |-> "shp",
                ret |-> "s2_import_grid"]
    /\ pc' = "download_zip"
    /\ UNCHANGED <<options, status, registries, workspace, download_dir,
                   downloaded_files, s2_urls, s2_tiles, ghs_built_tiles,
                   ghs_tiles, idx, localpath, region_vect, importstate,
                   filesystem, datasets, log, cleanupstate>>

\* lines 234-238: v.import of the tile grid
get_tiles_ghs_s2_import ==
    /\ pc = "s2_import_grid"
    /\ LET grid_tmp == "tmp_ghs_s2_grid_" \o Pid IN
        /\ rm_vectors' = RegisterVector(rm_vectors, grid_tmp)
        /\ \E ok \in BOOLEAN :
            /\ log' = Append(log, Event("v.import", localpath, grid_tmp, 0,
                                        <<>>, ok))
            /\ IF ok
                 THEN /\ vectors' = vectors \cup {<<CurrentLocation, grid_tmp>>}
                      /\ pc' = "s2_region"
                      /\ status' = status
                 ELSE /\ vectors' = vectors
                      /\ Abort
    /\ UNCHANGED <<options, rm_files, rm_folders, rm_rasters, workspace,
                   download_dir, locals, importstate, filesystem, rasters,
                   cleanupstate>>

\* lines 198-202: get_region_vect(1) for S2 and get_region_vect(2) for
\* GHS-BUILT
get_region_vect ==
    /\ pc \in {"s2_region", "built_region"}
    /\ LET num == IF pc = "s2_region" THEN 1 ELSE 2
           name == "tmp_region_vect_" \o ToString(num) \o "_" \o Pid
       IN
        /\ rm_vectors' = RegisterVector(rm_vectors, name)
        /\ region_vect' = name
        /\ \E ok \in BOOLEAN :
            /\ log' = Append(log, Event("v.in.region", NonePath, name, 0,
                                        <<>>, ok))
            /\ IF ok
                 THEN /\ vectors' = vectors \cup {<<CurrentLocation, name>>}
                      /\ pc' = IF pc = "s2_region" THEN "s2_get_tiles"
                                                   ELSE "built_tmploc"
                      /\ status' = status
                 ELSE /\ vectors' = vectors
                      /\ Abort
    /\ UNCHANGED <<options, rm_files, rm_folders, rm_rasters, workspace,
                   download_dir, downloaded_files, s2_urls, s2_tiles,
                   ghs_built_tiles, ghs_tiles, idx, call, localpath,
                   importstate, filesystem, rasters, cleanupstate>>

\* lines 205-222 with the callers' next statements (lines 240-241 and
\* 269-272): v.select writes the selection, v.db.select lists it; of the
\* two callers get_tiles_ghs_built switches back to the target workspace
get_tiles ==
    /\ pc \in {"s2_get_tiles", "built_get_tiles"}
    /\ LET selected_tmp == "selected_tiles_" \o Pid
           s2 == pc = "s2_get_tiles"
       IN
        /\ rm_vectors' = RegisterVector(rm_vectors, selected_tmp)
        /\ \E outcome \in {"ok", "v.select", "v.db.select"} :
           \E n \in 0..MaxTiles :
            /\ outcome # "ok" => n = 0
            /\ vectors' = IF outcome = "v.select" THEN vectors
                          ELSE vectors \cup {<<CurrentLocation, selected_tmp>>}
            /\ log' =
                 IF outcome = "v.select"
                   THEN Append(log, Event("v.select", NonePath, selected_tmp,
                                          0, <<>>, FALSE))
                   ELSE log \o
                        <<Event("v.select", NonePath, selected_tmp, 0, <<>>,
                                TRUE),
                          Event("v.db.select", NonePath,
                                IF s2 THEN "ghs_built_s2" ELSE "ghs_built", 0,
                                IF outcome = "ok"
                                  THEN Urls(DbSelect(IF s2 THEN "s2_tile_"
                                                     ELSE "tile_", n))
                                  ELSE <<>>,
                                outcome = "ok")>>
            /\ IF outcome = "ok"
                 THEN LET urls == Urls(DbSelect(IF s2 THEN "s2_tile_"
                                                      ELSE "tile_", n)) IN
                      /\ s2_urls' = IF s2 THEN urls ELSE s2_urls
                      /\ ghs_built_tiles' = IF s2 THEN ghs_built_tiles
                                            ELSE urls
                      /\ GISRC' = IF s2 THEN GISRC ELSE TGTGISRC
                      /\ pc' = IF s2
                                 THEN (IF Len(urls) = 0 THEN Section("built")
                                       ELSE "s2_loop")
                                 ELSE (IF Len(urls) = 0 THEN "test_memory"
                                       ELSE "built_loop")
                      /\ status' = status
                 ELSE /\ UNCHANGED <<s2_urls, ghs_built_tiles, GISRC>>
                      /\ Abort
    /\ idx' = 0
    /\ UNCHANGED <<options, rm_files, rm_folders, rm_rasters, TMPLOC,
                   SRCGISRC, TGTGISRC, GISDBASE, download_dir,
                   downloaded_files, s2_tiles, ghs_tiles, call, localpath,
                   region_vect, importstate, filesystem, rasters,
                   cleanupstate>>

\* ---------------------------------------------- main(): GHS-BUILT-S2
\* line 362: rm_files.append(local_filepath)
RegisterTile(list, path) == Append(list, path)

\* lines 353-365: one pass of the loop over s2_urls
main_s2_tile ==
    /\ pc = "s2_loop"
    /\ idx < Len(s2_urls)
    /\ LET filename == "tmp_s2_tile_" \o Pid \o "_" \o ToString(idx) \o ".tif"
           local_filepath == Join(download_dir, filename)
       IN
        /\ rm_files' = RegisterTile(rm_files, local_filepath)
        /\ \E ok \in BOOLEAN :
            /\ log' = Append(log, Event("download", local_filepath,
                                        s2_urls[idx + 1], 0, <<>>, ok))
            /\ IF ok
                 THEN /\ files' = files \cup {local_filepath}
                      /\ downloaded_files' =
                             Append(downloaded_files,
                                    <<local_filepath, options.ghs_built_s2>>)
                      /\ s2_tiles' = Append(s2_tiles, local_filepath)
                      /\ idx' = idx + 1
                      /\ pc' = IF idx + 1 = Len(s2_urls)
                                 THEN Section("built") ELSE "s2_loop"
                      /\ status' = status
                 ELSE /\ UNCHANGED <<files, downloaded_files, s2_tiles, idx>>
                      /\ Abort
    /\ UNCHANGED <<options, rm_folders, rm_rasters, rm_vectors, workspace,
                   download_dir, s2_urls, ghs_built_tiles, ghs_tiles, call,
                   localpath, region_vect, importstate, dirs, datasets,
                   cleanupstate>>

\* ------------------------------------------------- main(): GHS-BUILT
\* lines 187-195, called at line 251
get_actual_location ==
    /\ pc = "built"
    /\ GISDBASE' = GisdbasePath
    /\ TGTGISRC' = GISRC
    /\ pc' = "built_region"
    /\ UNCHANGED <<options, status, registries, TMPLOC, SRCGISRC, GISRC,
                   download_dir, locals, importstate, filesystem, datasets,
                   log, cleanupstate>>

\* lines 158-159: the globals are assigned as the GISRC file is made and
\* before the location is
RegisterLocation(srcgisrc, tmploc) == <<srcgisrc, tmploc>>

\* lines 156-174: the GISRC file is written, g.proj -c creates the location
createTMPlocation ==
    /\ pc = "built_tmploc"
    /\ LET reg == RegisterLocation(TempFile, "temp_import_location_" \o Pid)
       IN
        /\ SRCGISRC' = reg[1]
        /\ TMPLOC' = reg[2]
        /\ files' = files \cup {TempFile}
        /\ \E ok \in BOOLEAN :
            /\ log' = Append(log, Event("g.proj -c", NonePath, reg[2], 0,
                                        <<>>, ok))
            /\ IF ok
                 THEN /\ dirs' = dirs \cup
                            {Join(GISDBASE, "temp_import_location_" \o Pid)}
                      /\ pc' = "built_switch"
                      /\ status' = status
                 ELSE /\ dirs' = dirs
                      /\ Abort
    /\ UNCHANGED <<options, registries, TGTGISRC, GISDBASE, GISRC,
                   download_dir, locals, importstate, datasets,
                   cleanupstate>>

\* lines 176-184: switch to the temporary location and check its projection
createTMPlocation_switch ==
    /\ pc = "built_switch"
    /\ GISRC' = SRCGISRC
    /\ \E ok \in BOOLEAN :
        /\ log' = Append(log, [Event("g.proj -g", NonePath, TMPLOC, 0, <<>>,
                                     ok) EXCEPT !.gisrc = SRCGISRC])
        /\ IF ok THEN pc' = "built_index" /\ status' = status
                 ELSE Abort
    /\ UNCHANGED <<options, registries, TMPLOC, SRCGISRC, TGTGISRC, GISDBASE,
                   download_dir, locals, importstate, filesystem, datasets,
                   cleanupstate>>

\* lines 256-259: v.in.geojson writes the tile index into the active
\* (temporary) location; the name is not appended to rm_vectors
get_tiles_ghs_built_index ==
    /\ pc = "built_index"
    /\ LET index_vectmap == "tindex_vectmap_" \o Pid IN
       \E ok \in BOOLEAN :
        /\ log' = Append(log, Event("v.in.geojson", NonePath, index_vectmap,
                                    0, <<>>, ok))
        /\ IF ok
             THEN /\ vectors' = vectors \cup
                        {<<CurrentLocation, index_vectmap>>}
                  /\ pc' = "built_proj"
                  /\ status' = status
             ELSE /\ vectors' = vectors
                  /\ Abort
    /\ UNCHANGED <<options, registries, workspace, download_dir, locals,
                   importstate, filesystem, rasters, cleanupstate>>

\* lines 261-268: v.proj copies the region vector into the active location
get_tiles_ghs_built_proj ==
    /\ pc = "built_proj"
    /\ \E ok \in BOOLEAN :
        /\ log' = Append(log, Event("v.proj", NonePath, region_vect, 0, <<>>,
                                    ok))
        /\ IF ok
             THEN /\ vectors' = vectors \cup {<<CurrentLocation, region_vect>>}
                  /\ pc' = "built_get_tiles"
                  /\ status' = status
             ELSE /\ vectors' = vectors
                  /\ Abort
    /\ UNCHANGED <<options, registries, workspace, download_dir, locals,
                   importstate, filesystem, rasters, cleanupstate>>

\* lines 376-384: one pass of the loop over ghs_built_tiles starts a
\* download_onefile call
main_built_download ==
    /\ pc = "built_loop"
    /\ idx < Len(ghs_built_tiles)
    /\ call' = [base |-> ghs_built_tiles[idx + 1], format |-> "tif",
                ret |-> "built_append"]
    /\ pc' = "download_zip"
    /\ UNCHANGED <<options, status, registries, workspace, download_dir,
                   downloaded_files, s2_urls, s2_tiles, ghs_built_tiles,
                   ghs_tiles, idx, localpath, region_vect, importstate,
                   filesystem, datasets, log, cleanupstate>>

\* lines 385-386: and ends with the two appends
main_built_append ==
    /\ pc = "built_append"
    /\ downloaded_files' =
           Append(downloaded_files, <<localpath, options.ghs_built>>)
    /\ ghs_tiles' = Append(ghs_tiles, localpath)
    /\ idx' = idx + 1
    /\ pc' = IF idx + 1 = Len(ghs_built_tiles) THEN "test_memory"
                                               ELSE "built_loop"
    /\ UNCHANGED <<options, status, registries, workspace, download_dir,
                   s2_urls, s2_tiles, ghs_built_tiles, call, localpath,
                   region_vect, importstate, filesystem, datasets, log,
                   cleanupstate>>

\* ------------------------------------------------ main(): import all
\* variant: the request is kept whatever is free
test_memory_value_unclamped(requested, free) == requested

\* lines 146-153: the value of options["memory"] after test_memory
test_memory_value(requested, free) ==
    IF free < requested THEN free ELSE requested

\* variant: a single tile is patched too
patch_needed_any(tiles) == Len(tiles) >= 1

\* variant: everything but a single tile is patched
patch_needed_unless_one(tiles) == Len(tiles) # 1

\* lines 391-392: patch_s2 / patch_built
patch_needed(tiles) == Len(tiles) > 1

\* variant: the name does not depend on the index
tmp_grassname_fixed(i) == "tmp_ghs_raster_" \o Pid

\* lines 397, 401: name of the intermediate raster of downloaded_files[i]
\* (i counts from 0, as enumerate does)
tmp_grassname(i) == "tmp_ghs_raster_" \o Pid \o "_" \o ToString(i + 1)

\* lines 398, 402: rm_rasters.append(grassname)
RegisterRaster(list, name) == Append(list, name)

\* variant: the intermediate raster is put at the head of the input list
maps_to_patch_prepend(list, name) == <<name>> \o list

\* lines 399, 403: maps_to_patch_s2.append(grassname) and
\* maps_to_patch_built.append(grassname)
maps_to_patch_append(list, name) == Append(list, name)

\* variant: main() returns right after the import loop
after_import_no_patch(p_s2, p_built) == "return"

\* position after the import loop (lines 416-430)
after_import(p_s2, p_built) ==
    IF p_s2 THEN "patch_s2" ELSE IF p_built THEN "patch_built" ELSE "return"

\* lines 390-394: test_memory() and the set-up of the import loop; freeRAM
\* returns what psutil reports (lines 131-138)
test_memory ==
    /\ pc = "test_memory"
    /\ \E free \in 0..MaxFree :
        /\ memory' = options.memory
        /\ free_ram' = free
        /\ options' = [options EXCEPT
                          !.memory = test_memory_value(options.memory, free)]
    /\ patch_s2' = patch_needed(s2_tiles)
    /\ patch_built' = patch_needed(ghs_tiles)
    /\ maps_to_patch_s2' = <<>>
    /\ maps_to_patch_built' = <<>>
    /\ idx' = 0
    /\ pc' = IF Len(downloaded_files) = 0
               THEN after_import(patch_needed(s2_tiles),
                                 patch_needed(ghs_tiles))
               ELSE "import"
    /\ UNCHANGED <<status, registries, workspace, download_dir,
                   downloaded_files, s2_urls, s2_tiles, ghs_built_tiles,
                   ghs_tiles, call, localpath, region_vect, filesystem,
                   datasets, log, cleanupstate>>

\* the raster name r.import writes for downloaded_files[i + 1]
\* (lines 396-405)
grassname_of(i) ==
    LET file == downloaded_files[i + 1] IN
    IF (In(file[1], s2_tiles) /\ patch_s2)
         \/ (In(file[1], ghs_tiles) /\ patch_built)
      THEN tmp_grassname(i)
      ELSE file[2]

\* lines 395-415: one pass of the import loop
main_import ==
    /\ pc = "import"
    /\ idx < Len(downloaded_files)
    /\ LET file == downloaded_files[idx + 1]
           to_s2 == In(file[1], s2_tiles) /\ patch_s2
           to_built == ~to_s2 /\ In(file[1], ghs_tiles) /\ patch_built
           grassname == grassname_of(idx)
       IN
        /\ rm_rasters' = IF to_s2 \/ to_built
                           THEN RegisterRaster(rm_rasters, grassname)
                           ELSE rm_rasters
        /\ maps_to_patch_s2' =
               IF to_s2 THEN maps_to_patch_append(maps_to_patch_s2, grassname)
               ELSE maps_to_patch_s2
        /\ maps_to_patch_built' =
               IF to_built
                 THEN maps_to_patch_append(maps_to_patch_built, grassname)
                 ELSE maps_to_patch_built
        /\ \E ok \in BOOLEAN :
            /\ log' = Append(log, Event("import", file[1], grassname,
                                        options.memory, <<>>, ok))
            /\ IF ok
                 THEN /\ rasters' = rasters \cup {<<CurrentLocation, grassname>>}
                      /\ idx' = idx + 1
                      /\ pc' = IF idx + 1 = Len(downloaded_files)
                                 THEN after_import(patch_s2, patch_built)
                                 ELSE "import"
                      /\ status' = status
                 ELSE /\ UNCHANGED <<rasters, idx>>
                      /\ Abort
    /\ UNCHANGED <<options, rm_files, rm_folders, rm_vectors, workspace,
                   download_dir, downloaded_files, s2_urls, s2_tiles,
                   ghs_built_tiles, ghs_tiles, call, localpath, region_vect,
                   memory, free_ram, patch_s2, patch_built, filesystem,
                   vectors, cleanupstate>>

\* lines 416-422: r.patch of the S2 intermediates
main_patch_s2 ==
    /\ pc = "patch_s2"
    /\ \E ok \in BOOLEAN :
        /\ log' = Append(log, Event("patch", NonePath, options.ghs_built_s2,
                                    0, maps_to_patch_s2, ok))
        /\ IF ok
             THEN /\ rasters' = rasters \cup
                         {<<CurrentLocation, options.ghs_built_s2>>}
                  /\ pc' = after_import(FALSE, patch_built)
                  /\ status' = status
             ELSE /\ rasters' = rasters
                  /\ Abort
    /\ UNCHANGED <<options, registries, workspace, download_dir, locals,
                   importstate, filesystem, vectors, cleanupstate>>

\* lines 423-429: r.patch of the GHS-BUILT intermediates
main_patch_built ==
    /\ pc = "patch_built"
    /\ \E ok \in BOOLEAN :
        /\ log' = Append(log, Event("patch", NonePath, options.ghs_built,
                                    0, maps_to_patch_built, ok))
        /\ IF ok
             THEN /\ rasters' = rasters \cup
                         {<<CurrentLocation, options.ghs_built>>}
                  /\ pc' = "return"
                  /\ status' = status
             ELSE /\ rasters' = rasters
                  /\ Abort
    /\ UNCHANGED <<options, registries, workspace, download_dir, locals,
                   importstate, filesystem, vectors, cleanupstate>>

\* lines 430, 436: return 0 and sys.exit(0); the atexit handler follows
main_return ==
    /\ pc = "return"
    /\ status' = "success"
    /\ pc' = "atexit"
    /\ UNCHANGED <<options, registries, workspace, download_dir, locals,
                   importstate, filesystem, datasets, log, cleanupstate>>

\* an external signal while main() runs. SIGINT becomes KeyboardInterrupt
\* and the interpreter exits through the atexit handlers (line 435); a
\* signal Python does not handle (SIGTERM, SIGKILL) ends the process
\* without them: the module installs no signal handler
interrupt ==
    /\ pc \notin {"atexit", "exited"}
    /\ \E sig \in {"SIGINT", "SIGTERM"} :
        IF sig = "SIGINT"
          THEN pc' = "atexit" /\ status' = "interrupted"
          ELSE pc' = "exited" /\ status' = "killed"
    /\ UNCHANGED <<options, registries, workspace, download_dir, locals,
                   importstate, filesystem, datasets, log, cleanupstate>>

\* ------------------------------------------------------- cleanup()
\* something cleanup() removes: t is its kind, n a dataset or location
\* name, p a path
Item(t, n, p) == [t |-> t, n |-> n, p |-> p]

\* everything the registries and the globals record
Registered ==
    (IF TMPLOC # NoneStr THEN {Item("location", TMPLOC, NonePath)} ELSE {})
    \cup (IF SRCGISRC # NonePath THEN {Item("gisrc", NoneStr, SRCGISRC)}
          ELSE {})
    \cup {Item("vector", rm_vectors[i], NonePath) : i \in 1..Len(rm_vectors)}
    \cup {Item("raster", rm_rasters[i], NonePath) : i \in 1..Len(rm_rasters)}
    \cup {Item("file", NoneStr, rm_files[i]) : i \in 1..Len(rm_files)}
    \cup {Item("folder", NoneStr, rm_folders[i]) : i \in 1..Len(rm_folders)}

RECURSIVE SubsetsUpTo(_, _)
\* the subsets of S with at most k elements
SubsetsUpTo(S, k) ==
    IF k = 0 THEN {{}}
    ELSE LET prev == SubsetsUpTo(S, k - 1)
         IN prev \cup {T \cup {x} : T \in prev, x \in S}

Min(S) == CHOOSE m \in S : \A x \in S : m <= x

\* variant: the handler keeps the workspace it finds active
cleanup_gisrc_kept == GISRC

\* lines 93-94: the workspace cleanup() works in
cleanup_gisrc == IF TGTGISRC # NonePath THEN TGTGISRC ELSE GISRC

\* lines 100-105: g.remove is run through grass.run_command, which raises
\* CalledModuleError when the module fails; nothing catches it, so the
\* handler ends at the first failing g.remove. The result is the index of
\* that entry of the list, or Len(list) + 1 when every entry is passed
remove_loop_end(list, failing) ==
    IF failing = {} THEN Len(list) + 1 ELSE Min(failing)

\* lines 89-116 for a run of the handler in which the removals of the
\* items in F fail: the values of the variables when the handler ends
cleanup_result(F) ==
    LET gisrc1 == cleanup_gisrc
        loc == IF gisrc1 = OrigGisrc THEN TgtLoc ELSE TMPLOC
        \* lines 96-99: try_rmdir and try_remove swallow their errors
        locgone == TMPLOC # NoneStr
                     /\ Item("location", TMPLOC, NonePath) \notin F
        dirs1 == IF locgone THEN dirs \ {Join(GISDBASE, TMPLOC)} ELSE dirs
        vectors1 == IF locgone THEN {v \in vectors : v[1] # TMPLOC}
                    ELSE vectors
        rasters1 == IF locgone THEN {r \in rasters : r[1] # TMPLOC}
                    ELSE rasters
        files1 == IF SRCGISRC # NonePath
                       /\ Item("gisrc", NoneStr, SRCGISRC) \notin F
                    THEN files \ {SRCGISRC} ELSE files
        \* lines 100-102
        vfail == {i \in 1..Len(rm_vectors) :
                     /\ <<loc, rm_vectors[i]>> \in vectors1
                     /\ Item("vector", rm_vectors[i], NonePath) \in F}
        vend == remove_loop_end(rm_vectors, vfail)
        vdone == {rm_vectors[i] : i \in {j \in 1..Len(rm_vectors) : j < vend}}
        vseen == {rm_vectors[i] : i \in {j \in 1..Len(rm_vectors) : j <= vend}}
        vectors2 == {v \in vectors1 : ~(v[1] = loc /\ v[2] \in vdone)}
        vraised == vend <= Len(rm_vectors)
        \* lines 103-105
        rfail == {i \in 1..Len(rm_rasters) :
                     /\ <<loc, rm_rasters[i]>> \in rasters1
                     /\ Item("raster", rm_rasters[i], NonePath) \in F}
        rend == IF vraised THEN 0 ELSE remove_loop_end(rm_rasters, rfail)
        rdone == {rm_rasters[i] : i \in {j \in 1..Len(rm_rasters) : j < rend}}
        rseen == {rm_rasters[i] : i \in {j \in 1..Len(rm_rasters) : j <= rend}}
        rasters2 == {r \in rasters1 : ~(r[1] = loc /\ r[2] \in rdone)}
        raised == vraised \/ rend <= Len(rm_rasters)
        \* lines 106-110: a failing os.remove is caught and reported
        fdone == IF raised THEN {}
                 ELSE {f \in Range(rm_files) :
                          f \in files1 /\ Item("file", NoneStr, f) \notin F}
        fwarn == IF raised THEN {} ELSE Range(rm_files) \ fdone
        files2 == files1 \ fdone
        \* lines 111-116: a failing shutil.rmtree is caught and reported
        roots == IF raised THEN {}
                 ELSE {d \in Range(rm_folders) :
                          d \in dirs1 /\ Item("folder", NoneStr, d) \notin F}
        gone(p) == \E r \in roots : p = r \/ Inside(p, r)
        dwarn == IF raised THEN {}
                 ELSE {rm_folders[i] : i \in
                          {j \in 1..Len(rm_folders) :
                              /\ rm_folders[j] \in dirs1
                              /\ Item("folder", NoneStr, rm_folders[j]) \in F
                              /\ ~\E k \in 1..(j - 1) :
                                    /\ rm_folders[k] \in roots
                                    /\ Inside(rm_folders[j], rm_folders[k])}}
    IN [GISRC |-> gisrc1,
        dirs |-> {d \in dirs1 : ~gone(d)},
        files |-> {f \in files2 : ~gone(f)},
        vectors |-> vectors2,
        rasters |-> rasters2,
        attempted |->
            {i \in Registered :
                \/ i.t \in {"location", "gisrc"}
                \/ i.t = "vector" /\ i.n \in vseen
                \/ i.t = "raster" /\ i.n \in rseen
                \/ i.t \in {"file", "folder"} /\ ~raised},
        failed |->
            {i \in F :
                \/ i.t = "location" /\ Join(GISDBASE, TMPLOC) \in dirs
                \/ i.t = "gisrc" /\ SRCGISRC \in files
                \/ i.t = "vector" /\ vraised /\ i.n = rm_vectors[vend]
                \/ i.t = "raster" /\ ~vraised /\ raised
                       /\ i.n = rm_rasters[rend]
                \/ i.t = "file" /\ ~raised /\ i.p \in files1
                \/ i.t = "folder" /\ i.p \in dwarn},
        warnings |->
            {Item("file", NoneStr, f) : f \in fwarn}
            \cup {Item("folder", NoneStr, d) : d \in dwarn}]

\* lines 89-116, run by the interpreter at exit (line 435)
cleanup ==
    /\ pc = "atexit"
    /\ \E F \in SubsetsUpTo(Registered, MaxFail) :
        \E r \in {cleanup_result(F)} :
        /\ GISRC' = r.GISRC
        /\ dirs' = r.dirs
        /\ files' = r.files
        /\ vectors' = r.vectors
        /\ rasters' = r.rasters
        /\ attempted' = r.attempted
        /\ failed' = r.failed
        /\ warnings' = r.warnings
    /\ pc' = "exited"
    /\ UNCHANGED <<options, status, registries, TMPLOC, SRCGISRC, TGTGISRC,
                   GISDBASE, download_dir, locals, importstate, log>>

Next ==
    \/ main_directory
    \/ main_tempdir
    \/ main_register_tempdir
    \/ main_find_program
    \/ download_onefile_zip
    \/ download_onefile_unzip
    \/ main_s1_download
    \/ main_s1_append
    \/ get_tiles_ghs_s2_download
    \/ get_tiles_ghs_s2_import
    \/ get_region_vect
    \/ get_tiles
    \/ main_s2_tile
    \/ get_actual_location
    \/ createTMPlocation
    \/ createTMPlocation_switch
    \/ get_tiles_ghs_built_index
    \/ get_tiles_ghs_built_proj
    \/ main_built_download
    \/ main_built_append
    \/ test_memory
    \/ main_import
    \/ main_patch_s2
    \/ main_patch_built
    \/ main_return
    \/ interrupt
    \/ cleanup

Spec == Init /\ [][Next]_vars

\* =============================================================== claims
\* the output names the user asked for
FinalNames ==
    {options.ghs_built, options.ghs_built_s1, options.ghs_built_s2}
        \ {NoneStr}

\* positions in the log of the calls of one kind
Calls(op) == {i \in 1..Len(log) : log[i].op = op}

\* the urls / tile names a tile index can return
S2Urls == Range(Urls(DbSelect("s2_tile_", MaxTiles)))
BuiltTileNames == Range(Urls(DbSelect("tile_", MaxTiles)))

S2TileDownloads == {i \in Calls("download") : log[i].out \in S2Urls}
BuiltTileDownloads == {i \in Calls("download") : log[i].out \in BuiltTileNames}
S2Imports == {i \in Calls("import") : In(log[i].arg, s2_tiles)}
BuiltImports == {i \in Calls("import") : In(log[i].arg, ghs_tiles)}
Patches(name) == {i \in Calls("patch") : log[i].out = name}

\* the locator of product p has run and returned n tiles
Located(p, n) ==
    \E i \in Calls("v.db.select") :
        log[i].out = p /\ log[i].ok /\ Len(log[i].inputs) = n

OutputExists(name) == <<TgtLoc, name>> \in rasters

Succeeded == pc = "exited" /\ status = "success"

\* main() is past its download sections
DownloadsDone ==
    pc \in {"test_memory", "import", "patch_s2", "patch_built", "return"}
        \/ status = "success"

\* ------------------------------------------------------------------ C1
\* C1 as stated: after a run that ends in success every requested output
\* raster exists in the original workspace, whatever the number of tiles
C1_Original ==
    Succeeded => \A name \in FinalNames : OutputExists(name)

\* C1 amended: after a run that ends in success the raster of every
\* requested output exists in the original workspace, provided the locator
\* returned at least one tile for its product (ghs_built_s1 has no locator
\* and always has its one archive)
C1_Amended ==
    Succeeded =>
        /\ options.ghs_built_s1 # NoneStr
              => OutputExists(options.ghs_built_s1)
        /\ (options.ghs_built_s2 # NoneStr /\ Len(s2_urls) >= 1)
              => OutputExists(options.ghs_built_s2)
        /\ (options.ghs_built # NoneStr /\ Len(ghs_built_tiles) >= 1)
              => OutputExists(options.ghs_built)

C1_Witness ==
    /\ Succeeded
    /\ options.ghs_built_s1 # NoneStr /\ OutputExists(options.ghs_built_s1)
    /\ Len(s2_urls) = 1 /\ OutputExists(options.ghs_built_s2)
    /\ Len(ghs_built_tiles) = 2 /\ OutputExists(options.ghs_built)

\* ------------------------------------------------------------------ C2
SingleTile(downloads, imports, final, maps) ==
    /\ Cardinality(downloads) <= 1
    /\ DownloadsDone =>
          Cardinality(downloads) = 1 /\ \A i \in downloads : log[i].ok
    /\ Cardinality(imports) <= 1
    /\ status = "success" =>
          Cardinality(imports) = 1 /\ \A i \in imports : log[i].ok
    /\ \A i \in imports :
          log[i].out = final /\ ~In(log[i].out, rm_rasters)
    /\ maps = <<>>
    /\ Patches(final) = {}

\* C2: a tiled product with exactly one tile has one tile downloaded, which
\* is imported under the final output name; no intermediate raster is
\* created or registered for it and no r.patch runs for it, whatever the
\* other products have
C2_SingleTile ==
    /\ Len(s2_urls) = 1 =>
          SingleTile(S2TileDownloads, S2Imports, options.ghs_built_s2,
                     maps_to_patch_s2)
    /\ Len(ghs_built_tiles) = 1 =>
          SingleTile(BuiltTileDownloads, BuiltImports, options.ghs_built,
                     maps_to_patch_built)

C2_Witness ==
    /\ Succeeded
    /\ Len(s2_urls) = 1 /\ Cardinality(S2Imports) = 1
    /\ Len(ghs_built_tiles) = 2 /\ Patches(options.ghs_built) # {}
    /\ options.ghs_built_s1 # NoneStr

\* ------------------------------------------------------------------ C3
MultiTile(n, imports, final, maps, others) ==
    /\ Cardinality(imports) <= n
    /\ Len(maps) = Cardinality(imports)
    /\ \A i, j \in imports : i # j => log[i].out # log[j].out
    /\ \A i \in imports :
          /\ log[i].out \notin FinalNames
          /\ In(log[i].out, rm_rasters)
          /\ In(log[i].out, maps)
          /\ ~In(log[i].out, others)
    /\ Cardinality(Patches(final)) <= 1
    /\ \A k \in Patches(final) :
          /\ log[k].inputs = maps
          /\ Len(maps) = n
          /\ Range(maps) = {log[i].out : i \in imports}
          /\ \A i \in imports : i < k /\ log[i].ok
          /\ log[k].ok => OutputExists(final)
    /\ status = "success" =>
          /\ Cardinality(Patches(final)) = 1
          /\ \A k \in Patches(final) : log[k].ok
          /\ OutputExists(final)

\* C3: a tiled product with N > 1 tiles gets exactly N intermediate rasters,
\* with names that differ from each other, from the other product's
\* intermediates and from every final name; no tile is imported under the
\* final name, and the one r.patch of the product gets exactly these N
\* rasters and writes the final name
C3_MultiTile ==
    /\ Len(s2_urls) > 1 =>
          MultiTile(Len(s2_urls), S2Imports, options.ghs_built_s2,
                    maps_to_patch_s2, maps_to_patch_built)
    /\ Len(ghs_built_tiles) > 1 =>
          MultiTile(Len(ghs_built_tiles), BuiltImports, options.ghs_built,
                    maps_to_patch_built, maps_to_patch_s2)
    /\ \A a, b \in 1..Len(rm_rasters) :
          a # b => rm_rasters[a] # rm_rasters[b]

C3_Witness ==
    /\ Succeeded
    /\ Len(s2_urls) = MaxTiles /\ Len(ghs_built_tiles) = MaxTiles
    /\ options.ghs_built_s1 # NoneStr
    /\ Len(maps_to_patch_s2) = MaxTiles
    /\ Len(maps_to_patch_built) = MaxTiles
    /\ Patches(options.ghs_built_s2) # {}
    /\ Patches(options.ghs_built) # {}

\* ------------------------------------------------------------------ C4
\* what a registered item refers to is still there
Exists(i) ==
    CASE i.t = "location" -> Join(GISDBASE, TMPLOC) \in dirs
      [] i.t = "gisrc" -> i.p \in files
      [] i.t = "vector" ->
            <<TgtLoc, i.n>> \in vectors \/ <<TMPLOC, i.n>> \in vectors
      [] i.t = "raster" -> <<TgtLoc, i.n>> \in rasters
      [] i.t = "file" -> i.p \in files
      [] i.t = "folder" -> i.p \in dirs

FileRecorded(f) ==
    In(f, rm_files) \/ f = SRCGISRC
        \/ \E k \in 1..Len(rm_folders) : Inside(f, rm_folders[k])

DirRecorded(d) ==
    \/ In(d, rm_folders)
    \/ TMPLOC # NoneStr /\ d = Join(GISDBASE, TMPLOC)
    \/ \E k \in 1..Len(rm_folders) : Inside(d, rm_folders[k])

DatasetRecorded(ds, list) ==
    \/ ds[1] = TgtLoc /\ In(ds[2], list)
    \/ TMPLOC # NoneStr /\ ds[1] = TMPLOC

\* the one step between grass.tempdir() and rm_folders.append (lines
\* 308-309), or a signal that arrived in it
TempdirWindow ==
    /\ rm_folders = <<>> /\ files = {}
    /\ pc = "register_tempdir" \/ status \in {"interrupted", "killed"}

\* C5: every temporary artifact that exists is recorded in a registry or in
\* TMPLOC / SRCGISRC, or lies inside a recorded folder or location; the
\* ephemeral download directory is unrecorded for the one step after its
\* creation; a run that ends with a fatal error has everything recorded
C5_Recorded ==
    /\ \A f \in files : FileRecorded(f)
    /\ \A d \in dirs \ {options.directory} :
          DirRecorded(d) \/ (d = TempDir /\ TempdirWindow)
    /\ \A v \in vectors : DatasetRecorded(v, rm_vectors)
    /\ \A r \in rasters :
          r[2] \in FinalNames \/ DatasetRecorded(r, rm_rasters)
    /\ status = "failure" =>
          \A d \in dirs \ {options.directory} : DirRecorded(d)

C5_Witness ==
    /\ pc = "atexit" /\ status = "failure"
    /\ TempDir \in dirs
    /\ Join(GISDBASE, TMPLOC) \in dirs
    /\ \E v \in vectors : v[1] = TMPLOC
    /\ \E v \in vectors : v[1] = TgtLoc
    /\ \E r \in rasters : In(r[2], rm_rasters)
    /\ \E f \in files : Inside(f, TempDir)
    /\ \E d \in dirs : Inside(d, TempDir)

\* ------------------------------------------------------------------ C6
\* C6: in a run of cleanup() every registered item gets its removal
\* attempt, whichever removals fail
C6_Claim ==
    (pc = "exited" /\ status # "killed") => Registered \subseteq attempted

\* ------------------------------------------------------------------ C7
\* C7: every r.import gets memory = min(M, A), M the requested value read
\* by test_memory and A the free memory it found; the value is fixed
\* before the first import and is the same for all of them
C7_Memory ==
    /\ \A i \in Calls("import") :
          /\ memory \in 1..MaxMemory
          /\ log[i].memory = IF free_ram < memory THEN free_ram ELSE memory
          /\ log[i].memory = options.memory
    /\ pc \in {"import", "patch_s2", "patch_built", "return"} =>
          options.memory = IF free_ram < memory THEN free_ram ELSE memory
    /\ memory = 0 => Calls("import") = {}

C7_Witness ==
    /\ Cardinality(Calls("import")) >= 2
    /\ free_ram < memory
    /\ \A i \in Calls("import") : log[i].memory = free_ram

\* ------------------------------------------------------------------ C8
\* C8: a failed download is the last call of the run (no retry, no later
\* download, unzip, import or mosaic), no output raster is produced, the
\* run ends in failure, and after exit the files and folders downloaded
\* before it are gone (one whose own removal was tried and failed is not
\* held against the claim)
C8_Claim ==
    \A i \in Calls("download") :
        ~log[i].ok =>
            /\ i = Len(log)
            /\ status = "failure" /\ pc \in {"atexit", "exited"}
            /\ \A name \in FinalNames : ~OutputExists(name)
            /\ pc = "exited" =>
                  \A x \in Registered :
                      x.t \in {"file", "folder"} =>
                          ~Exists(x) \/ x \in failed

\* ------------------------------------------------------------------ C9
ZeroTiles(final, downloads, maps) ==
    /\ downloads = {}
    /\ \A k \in 1..Len(downloaded_files) : downloaded_files[k][2] # final
    /\ \A i \in Calls("import") : log[i].out # final
    /\ maps = <<>>
    /\ Patches(final) = {}
    /\ ~OutputExists(final)
    /\ pc = "exited" =>
          \/ status = "success"
          \/ status \in {"interrupted", "killed"}
          \/ status = "failure" /\ ~log[Len(log)].ok

\* C9: a tiled product whose locator returns no tile has nothing
\* downloaded, imported or patched, and no intermediate registered; the run
\* still ends in success (it fails only if some call fails or a signal
\* arrives)
C9_ZeroTiles ==
    /\ Located("ghs_built_s2", 0) =>
          ZeroTiles(options.ghs_built_s2, S2TileDownloads, maps_to_patch_s2)
    /\ Located("ghs_built", 0) =>
          ZeroTiles(options.ghs_built, BuiltTileDownloads,
                    maps_to_patch_built)

C9_Witness ==
    /\ Succeeded
    /\ Located("ghs_built_s2", 0)
    /\ Located("ghs_built", 0)
    /\ options.ghs_built_s1 = NoneStr
    /\ Calls("import") = {} /\ Calls("patch") = {}

\* ----------------------------------------------------------------- C10
\* C10: a directory given by the directory option is never registered and
\* is still there after exit; the ephemeral directory is registered and
\* removed; and whatever the run put into the download directory is
\* registered and removed (after a run of cleanup(); an item whose own
\* removal was tried and failed is not held against the claim)
C10_Claim ==
    /\ options.directory # NonePath =>
          /\ ~In(options.directory, rm_folders)
          /\ download_dir # NonePath => options.directory \in dirs
    /\ (pc = "exited" /\ status # "killed" /\ download_dir # NonePath) =>
          /\ (options.directory = NonePath /\ In(TempDir, rm_folders)) =>
                \/ TempDir \notin dirs
                \/ Item("folder", NoneStr, TempDir) \in failed
          /\ \A f \in files :
                Inside(f, download_dir) =>
                    In(f, rm_files) /\ Item("file", NoneStr, f) \in failed
          /\ \A d \in dirs :
                Inside(d, download_dir) =>
                    In(d, rm_folders) /\ Item("folder", NoneStr, d) \in failed

\* the order of the tiles of one product: tiles is the locator's list,
\* paths the local files of the tiles fetched so far, final the output
\* name. The downloads of the product, in the order of the calls, are the
\* tiles in locator order; its imports, in the order of the calls, are
\* the local files in the same order; and the input list of r.patch is
\* the list of the rasters these imports wrote, in that order
TileOrder(tiles, paths, final) ==
    LET IsDownload(e) == e.op = "download" /\ e.out \in Range(tiles)
        IsImport(e) == e.op = "import" /\ e.arg \in Range(paths)
        downloads == SelectSeq(log, IsDownload)
        imports == SelectSeq(log, IsImport)
    IN
    /\ Len(downloads) <= Len(tiles)
    /\ \A k \in 1..Len(downloads) : downloads[k].out = tiles[k]
    /\ Len(imports) <= Len(paths) /\ Len(paths) <= Len(tiles)
    /\ \A k \in 1..Len(imports) : imports[k].arg = paths[k]
    /\ \A p \in Patches(final) :
        /\ Len(imports) = Len(tiles)
        /\ log[p].inputs = [k \in 1..Len(imports) |-> imports[k].out]
        /\ \A k \in 1..Len(imports) : downloads[k].ok /\ imports[k].ok
        /\ \A a \in Calls("import") : a < p

\* C11: for each tiled product with more than one tile the inputs of the
\* mosaic step are in the order in which the tiles were downloaded and
\* imported: for tiles i < j in locator order, tile i is downloaded before
\* tile j, imported before tile j, and its intermediate raster precedes
\* tile j's in the input list of r.patch; and every download (and unzip)
\* of the run is finished before the first r.import starts
C11_Order ==
    /\ TileOrder(s2_urls, s2_tiles, options.ghs_built_s2)
    /\ TileOrder(ghs_built_tiles, ghs_tiles, options.ghs_built)
    /\ \A a \in Calls("import") :
          \A d \in (a + 1)..Len(log) : log[d].op \notin {"download", "unzip"}

\* both tiled products were located with several tiles, downloaded,
\* imported and patched, after a single archive of the S1 product
C11_Witness ==
    /\ Succeeded
    /\ options.ghs_built_s1 # NoneStr
    /\ Len(s2_urls) > 1 /\ Len(ghs_built_tiles) > 1
    /\ \E p \in Patches(options.ghs_built_s2) :
          log[p].ok /\ Len(log[p].inputs) = Len(s2_urls)
    /\ \E p \in Patches(options.ghs_built) :
          log[p].ok /\ Len(log[p].inputs) = Len(ghs_built_tiles)

\* the steps of get_tiles_ghs_built between the switch to the temporary
\* location (line 177) and the switch back (line 271)
Locating == pc \in {"built_index", "built_proj", "built_get_tiles"}

\* the handler has run to its end or to the exception that ended it
CleanedUp == pc = "exited" /\ status # "killed"

\* C12: the active workspace (GISRC) differs from the original one only
\* while get_tiles_ghs_built is locating tiles in the temporary location
\* (or the run has ended there and cleanup() has not started yet); every
\* r.import and r.patch call runs with the original workspace active, and
\* so does every dataset lookup and removal of cleanup(), also after a
\* fatal error that occurred while the temporary workspace was active
C12_Workspace ==
    /\ GISRC # OrigGisrc =>
          /\ GISRC = SRCGISRC /\ TGTGISRC = OrigGisrc
          /\ Locating \/ pc = "atexit" \/ status = "killed"
    /\ \A i \in Calls("import") \cup Calls("patch") :
          log[i].gisrc = OrigGisrc
    /\ CleanedUp =>
          /\ GISRC = OrigGisrc
          /\ \A i \in attempted \ failed :
                /\ i.t = "vector" => <<TgtLoc, i.n>> \notin vectors
                /\ i.t = "raster" => <<TgtLoc, i.n>> \notin rasters

\* a fatal error of a module run in the temporary location, after which
\* cleanup() looked up and removed the region vector in the original one
C12_Witness ==
    /\ CleanedUp /\ status = "failure"
    /\ Len(log) > 0 /\ log[Len(log)].gisrc # OrigGisrc
    /\ ~log[Len(log)].ok
    /\ GISRC = OrigGisrc
    /\ Item("vector", region_vect, NonePath) \in attempted \ failed
    /\ \E i \in Calls("v.in.region") : log[i].ok /\ log[i].out = region_vect
    /\ <<TgtLoc, region_vect>> \notin vectors

====
